---------------------------- MODULE Spec2Model ----------------------------
(***************************************************************************)
(* A model of the RTLIL back end of nMigen (src/nmigen/back/rtlil.py):     *)
(* the identifier allocator (_Namer), the structural builders, the value   *)
(* compilers and the recursive fragment lowering (convert_fragment).       *)
(*                                                                         *)
(* Identifiers and sigspecs are strings, built by the same concatenations  *)
(* as the code's str.format calls.  An emitted line of text is the tuple   *)
(* of its blank-separated fields, the first being its indentation.         *)
(***************************************************************************)
EXTENDS Integers, Sequences, FiniteSets, TLC

VARIABLES
    namer,      \* SpecNamer: the _Namer under test, [index, names]
    cand,       \* SpecNamer: the candidate name of the allocate call in progress
    npc,        \* SpecNamer: "idle", or "loop" inside the while loop of _make_name
    returned,   \* SpecNamer: the names returned so far, in call order
    vm,         \* SpecValue: the module (builder and compiler state) lowered into
    vside,      \* SpecValue: "none", or the compiler that ran: "rhs" or "lhs"
    vexpr,      \* SpecValue: the expression that was lowered
    vres,       \* SpecValue: what the lowering returned: [m, s, err]
    top,        \* Spec: the fragment handed to convert()
    builder,    \* Spec: the _Builder, [nm, buf]
    stack,      \* Spec: the activations of convert_fragment, outermost first
    result      \* Spec: <<>>, or what convert came to: <<[name, port_map, err]>>

namerVars == <<namer, cand, npc, returned>>
valueVars == <<vm, vside, vexpr, vres>>
fragVars  == <<top, builder, stack, result>>
vars      == <<namerVars, valueVars, fragVars>>

(***************************************************************************)
(* Bounds of the model.                                                    *)
(***************************************************************************)
MaxAllocs == 4   \* allocate calls on one _Namer
MaxWidth == 3    \* width of a signal or constant
MaxSubs == 2     \* subfragments of the top fragment

\* Python's None, where the code passes None for a name or a wire.
None == "None"

\* F applied to the value of v: a local variable v of the code, assigned once.
Bind(v, F(_)) == CHOOSE y \in {F(x) : x \in {v}} : TRUE

(***************************************************************************)
(* _Namer                                                                  *)
(***************************************************************************)
\* _Namer.__init__
NewNamer == [index |-> 0, names |-> {}]

\* The first character of a name is one of the two escape markers.
IsEscaped(name) == SubSeq(name, 1, 1) \in {"\\", "$"}

\* _make_name, lines 16-20: the candidate before the collision loop.
FirstName(nm, name, local) ==
    IF name = None
    THEN [nm |-> [nm EXCEPT !.index = @ + 1], name |-> "$" \o ToString(nm.index + 1)]
    ELSE IF ~local /\ ~IsEscaped(name)
    THEN [nm |-> nm, name |-> "\\" \o name]
    ELSE [nm |-> nm, name |-> name]

\* A loop condition that never sees a collision.
NeverCollides(nm, name) == FALSE

\* _make_name, line 21: the loop condition.
Collides(nm, name) == name \in nm.names

\* _make_name, lines 22-23: one iteration of the collision loop.
Retry(nm, name) ==
    [nm |-> [nm EXCEPT !.index = @ + 1],
     name |-> name \o "$" \o ToString(nm.index + 1)]

\* _make_name, lines 24-25.
Register(nm, name) == [nm |-> [nm EXCEPT !.names = @ \cup {name}], name |-> name]

RECURSIVE Uniquify(_)
Uniquify(c) ==
    IF Collides(c.nm, c.name)
    THEN Uniquify(Retry(c.nm, c.name))
    ELSE Register(c.nm, c.name)

\* _make_name as one call: [nm |-> the namer after the call, name |-> the result].
MakeName(nm, name, local) == Uniquify(FirstName(nm, name, local))

(***************************************************************************)
(* SpecNamer: any sequence of allocate calls on one scope's allocator,     *)
(* the collision loop taken one iteration at a time.                       *)
(***************************************************************************)
RequestedNames == {None, "a", "\\a", "$1", "a$1", "\\a$1", "$2"}

NamerInit ==
    /\ namer = NewNamer
    /\ cand = None
    /\ npc = "idle"
    /\ returned = <<>>
    /\ vm = None /\ vside = "none" /\ vexpr = None /\ vres = None
    /\ top = None /\ builder = None /\ stack = <<>> /\ result = <<>>

AllocBegin(name, local) ==
    /\ npc = "idle"
    /\ Len(returned) < MaxAllocs
    /\ namer' = FirstName(namer, name, local).nm
    /\ cand' = FirstName(namer, name, local).name
    /\ npc' = "loop"
    /\ UNCHANGED <<returned, valueVars, fragVars>>

AllocRetry ==
    /\ npc = "loop"
    /\ Collides(namer, cand)
    /\ namer' = Retry(namer, cand).nm
    /\ cand' = Retry(namer, cand).name
    /\ UNCHANGED <<npc, returned, valueVars, fragVars>>

AllocReturn ==
    /\ npc = "loop"
    /\ ~Collides(namer, cand)
    /\ namer' = Register(namer, cand).nm
    /\ returned' = Append(returned, cand)
    /\ npc' = "idle"
    /\ cand' = None
    /\ UNCHANGED <<valueVars, fragVars>>

NamerNext ==
    \/ \E name \in RequestedNames, local \in BOOLEAN : AllocBegin(name, local)
    \/ AllocRetry
    \/ AllocReturn

(***************************************************************************)
(* The design graph handed to the back end: signals and expression trees.  *)
(* Every node carries its shape (bits, sign), as value.shape() reports it. *)
(***************************************************************************)
\* A signal: identity, name, width, signedness, reset value, source location
\* and attributes.
MkSignal(id, name, nbits, signed, reset, file, line, attrs) ==
    [id |-> id, name |-> name, nbits |-> nbits, signed |-> signed, reset |-> reset,
     src_loc |-> <<file, line>>, attrs |-> attrs]

NoSignal == MkSignal("", "", 0, FALSE, 0, "", 0, <<>>)

OpLoc == <<"design.py", 7>>

Node ==
    [op |-> "", bits |-> 0, sign |-> FALSE, sig |-> NoSignal, value |-> 0,
     isstr |-> FALSE, sval |-> "", start |-> 0, end |-> 0, count |-> 0,
     oper |-> "", operands |-> <<>>, src_loc |-> OpLoc]

SignalRef(s) ==
    [Node EXCEPT !.op = "Signal", !.sig = s, !.bits = s.nbits, !.sign = s.signed,
                 !.src_loc = s.src_loc]
Const(value, nbits, signed) ==
    [Node EXCEPT !.op = "Const", !.value = value, !.bits = nbits, !.sign = signed]
ConstStr(sval, signed) ==
    [Node EXCEPT !.op = "Const", !.isstr = TRUE, !.sval = sval, !.bits = Len(sval),
                 !.sign = signed]
Slice(value, start, end) ==
    [Node EXCEPT !.op = "Slice", !.operands = <<value>>, !.start = start, !.end = end,
                 !.bits = end - start]
RECURSIVE SumBits(_)
SumBits(es) == IF es = <<>> THEN 0 ELSE Head(es).bits + SumBits(Tail(es))
Cat(operands) ==
    [Node EXCEPT !.op = "Cat", !.operands = operands, !.bits = SumBits(operands)]
Repl(value, count) ==
    [Node EXCEPT !.op = "Repl", !.operands = <<value>>, !.count = count,
                 !.bits = value.bits * count]
Operator(oper, operands, bits, sign) ==
    [Node EXCEPT !.op = "Operator", !.oper = oper, !.operands = operands,
                 !.bits = bits, !.sign = sign]
Part(value) == [Node EXCEPT !.op = "Part", !.operands = <<value>>, !.bits = 1]
ArrayProxy(value) == [Node EXCEPT !.op = "ArrayProxy", !.operands = <<value>>,
                                  !.bits = value.bits]

\* value.shape()
Shape(e) == [bits |-> e.bits, sign |-> e.sign]

(***************************************************************************)
(* Text helpers                                                            *)
(***************************************************************************)
\* str.replace("\"", "\\\"")
RECURSIVE EscapeQuotes(_)
EscapeQuotes(s) ==
    IF s = "" THEN ""
    ELSE (IF SubSeq(s, 1, 1) = "\"" THEN "\\\"" ELSE SubSeq(s, 1, 1))
             \o EscapeQuotes(SubSeq(s, 2, Len(s)))

Quoted(s) == "\"" \o EscapeQuotes(s) \o "\""

\* src(src_loc): "file:line"
SrcOf(src_loc) == src_loc[1] \o ":" \o ToString(src_loc[2])

\* str.join
RECURSIVE Join(_, _)
Join(sep, ss) ==
    IF ss = <<>> THEN ""
    ELSE IF Len(ss) = 1 THEN ss[1]
    ELSE ss[1] \o sep \o Join(sep, Tail(ss))

Reversed(ss) == [i \in 1..Len(ss) |-> ss[Len(ss) + 1 - i]]

\* "{:b}".format(v): the shortest binary rendering, with a sign for a negative v.
RECURSIVE BinDigits(_)
BinDigits(v) ==
    IF v < 2 THEN ToString(v) ELSE BinDigits(v \div 2) \o ToString(v % 2)

FormatB(v) == IF v < 0 THEN "-" \o BinDigits(0 - v) ELSE BinDigits(v)

\* int(value) of a bool or an int parameter
BoolInt(b) == IF b THEN 1 ELSE 0

(***************************************************************************)
(* _ModuleBuilder together with the _ValueCompilerState created for it.    *)
(* buf is the module's text buffer; sigw is the width of every sigspec     *)
(* produced so far, as the IR reads it: a wire's declared width, a         *)
(* literal's width prefix, 1 for a bit select, hi-lo+1 for a range select, *)
(* the sum of the parts of a brace group.  matches logs the calls of       *)
(* match_shape.                                                            *)
(***************************************************************************)
EmptyMap == [x \in {} |-> 0]

\* _ModuleBuilder.__init__ and _ValueCompilerState.__init__
NewModule(name, attrs) ==
    [name |-> name, attrs |-> <<[name |-> "generator", isstr |-> TRUE,
                                 sval |-> "nMigen", ival |-> 0]>> \o attrs,
     buf |-> <<>>, nm |-> NewNamer,
     wires |-> EmptyMap, driven |-> EmptyMap, ports |-> EmptyMap,
     sub_name |-> None, sigw |-> EmptyMap, matches |-> <<>>]

\* _Bufferer._append
Emit(m, line) == [m EXCEPT !.buf = Append(@, line)]

\* the attribute lines of __enter__ (indent "") and attribute() (indent "  ")
AttrLine(indent, a) ==
    IF a.isstr
    THEN <<indent, "attribute", "\\" \o a.name, Quoted(a.sval)>>
    ELSE <<indent, "attribute", "\\" \o a.name, ToString(a.ival)>>

\* _ModuleBuilder.__enter__
RECURSIVE EmitAttrs(_, _, _)
EmitAttrs(m, indent, attrs) ==
    IF attrs = <<>> THEN m
    ELSE EmitAttrs(Emit(m, AttrLine(indent, Head(attrs))), indent, Tail(attrs))

ModuleEnter(m) == Emit(EmitAttrs(m, "", m.attrs), <<"", "module", m.name>>)

\* _ModuleBuilder.attribute
Attribute(m, a) == Emit(m, AttrLine("  ", a))

\* _Bufferer._src
Src(m, src) ==
    IF src # "" THEN Emit(m, <<"  ", "attribute", "\\src", Quoted(src)>>) ELSE m

RecordWidth(m, s, w) == [m EXCEPT !.sigw = (s :> w) @@ @]

\* _ModuleBuilder.wire: [m, name]
WireLine(width, port_id, port_kind, name) ==
    IF port_id = None
    THEN <<"  ", "wire", "width", ToString(width), name>>
    ELSE <<"  ", "wire", "width", ToString(width), port_kind, port_id, name>>

Wire(m, width, port_id, port_kind, name, src) ==
    Bind(Src(m, src), LAMBDA m1 :
    Bind(MakeName(m1.nm, name, FALSE), LAMBDA r :
      [m |-> RecordWidth(Emit([m1 EXCEPT !.nm = r.nm],
                              WireLine(width, port_id, port_kind, r.name)),
                         r.name, width),
       name |-> r.name]))

\* _ModuleBuilder.cell: params is a sequence of <<name, int>>, ports a sequence
\* of <<port, sigspec>>, both in the order of the dict literals.
RECURSIVE EmitParams(_, _)
EmitParams(m, params) ==
    IF params = <<>> THEN m
    ELSE EmitParams(Emit(m, <<"    ", "parameter", "\\" \o Head(params)[1],
                              ToString(Head(params)[2])>>), Tail(params))

RECURSIVE EmitConnects(_, _)
EmitConnects(m, ports) ==
    IF ports = <<>> THEN m
    ELSE EmitConnects(Emit(m, <<"    ", "connect", Head(ports)[1], Head(ports)[2]>>),
                      Tail(ports))

Cell(m, kind, name, params, ports, src) ==
    Bind(Src(m, src), LAMBDA m1 :
    Bind(MakeName(m1.nm, name, TRUE), LAMBDA r :
      [m |-> Emit(EmitConnects(EmitParams(Emit([m1 EXCEPT !.nm = r.nm],
                                               <<"  ", "cell", kind, r.name>>),
                                          params), ports),
                  <<"  ", "end">>),
       name |-> r.name]))

\* _ValueCompilerState.add_driven
AddDriven(m, signal, sync) == [m EXCEPT !.driven = (signal.id :> sync) @@ @]

\* _ValueCompilerState.add_port, lines 210-216
PortKind(kind) == CASE kind = "i" -> "input" [] kind = "o" -> "output"
                    [] kind = "io" -> "inout"

\* An add_port that gives every port the index 0.
AddPortAtZero(m, signal, kind) ==
    [m EXCEPT !.ports = (signal.id :> [port_id |-> "0",
                                       port_kind |-> PortKind(kind)]) @@ @]

\* _ValueCompilerState.add_port
AddPort(m, signal, kind) ==
    [m EXCEPT !.ports = (signal.id :> [port_id |-> ToString(Cardinality(DOMAIN m.ports)),
                                       port_kind |-> PortKind(kind)]) @@ @]

\* _ValueCompilerState.resolve: [m, curr, next]
RECURSIVE EmitSignalAttrs(_, _)
EmitSignalAttrs(m, attrs) ==
    IF attrs = <<>> THEN m ELSE EmitSignalAttrs(Attribute(m, Head(attrs)), Tail(attrs))

Resolve(m, signal) ==
    IF signal.id \in DOMAIN m.wires
    THEN [m |-> m, curr |-> m.wires[signal.id].curr, next |-> m.wires[signal.id].next]
    ELSE
    Bind(IF signal.id \in DOMAIN m.ports
         THEN m.ports[signal.id]
         ELSE [port_id |-> None, port_kind |-> None], LAMBDA port :
    Bind(IF m.sub_name # None
         THEN m.sub_name \o "_" \o signal.name
         ELSE signal.name, LAMBDA wire_name :
    Bind(Wire(EmitSignalAttrs(m, signal.attrs), signal.nbits, port.port_id,
              port.port_kind, wire_name, SrcOf(signal.src_loc)), LAMBDA c :
    Bind(IF signal.id \in DOMAIN m.driven
         THEN Wire(c.m, signal.nbits, None, None, c.name \o "$next",
                   SrcOf(signal.src_loc))
         ELSE [m |-> c.m, name |-> None], LAMBDA n :
      [m |-> [n.m EXCEPT !.wires = (signal.id :> [curr |-> c.name, next |-> n.name]) @@ @],
       curr |-> c.name, next |-> n.name]))))

\* _ValueCompilerState.resolve_curr
ResolveCurr(m, signal) == Bind(Resolve(m, signal), LAMBDA r : [m |-> r.m, s |-> r.curr])

\* _ValueCompilerState.hierarchy
EnterHierarchy(m, sub_name) == [m EXCEPT !.sub_name = sub_name]
LeaveHierarchy(m) == [m EXCEPT !.sub_name = None]

(***************************************************************************)
(* The value compilers.  A lowering returns [m, s, err]: the module after  *)
(* it, the sigspec it returns and the exception it raised ("" for none);   *)
(* what a raising call had emitted before it raised stays emitted.         *)
(***************************************************************************)
Ok(m, s) == [m |-> m, s |-> s, err |-> ""]
Raise(m, exc) == [m |-> m, s |-> None, err |-> exc]

\* The rest of a handler after a call that may have raised.
Then(r, F(_)) == IF r.err # "" THEN Raise(r.m, r.err) ELSE Bind(r, F)

\* _RHSValueCompiler.operator_map
OperatorMap(n, k) ==
    CASE n = 1 /\ k = "~"  -> "$not"
      [] n = 1 /\ k = "-"  -> "$neg"
      [] n = 1 /\ k = "b"  -> "$reduce_bool"
      [] n = 2 /\ k = "+"  -> "$add"
      [] n = 2 /\ k = "-"  -> "$sub"
      [] n = 2 /\ k = "*"  -> "$mul"
      [] n = 2 /\ k = "/"  -> "$div"
      [] n = 2 /\ k = "%"  -> "$mod"
      [] n = 2 /\ k = "**" -> "$pow"
      [] n = 2 /\ k = "<<" -> "$sshl"
      [] n = 2 /\ k = ">>" -> "$sshr"
      [] n = 2 /\ k = "&"  -> "$and"
      [] n = 2 /\ k = "^"  -> "$xor"
      [] n = 2 /\ k = "|"  -> "$or"
      [] n = 2 /\ k = "==" -> "$eq"
      [] n = 2 /\ k = "!=" -> "$ne"
      [] n = 2 /\ k = "<"  -> "$lt"
      [] n = 2 /\ k = "<=" -> "$le"
      [] n = 2 /\ k = ">"  -> "$gt"
      [] n = 2 /\ k = ">=" -> "$ge"
      [] n = 3 /\ k = "m"  -> "$mux"

\* A sigspec together with its width.
Sized(m, s, w) == Ok(RecordWidth(m, s, w), s)

\* _ValueCompiler.on_Slice, given the lowering of value.value
OnSlice(e, inner) ==
    Then(inner, LAMBDA v :
      IF e.start = 0 /\ e.end = e.operands[1].bits
      THEN v
      ELSE IF e.start + 1 = e.end
      THEN Sized(v.m, v.s \o " [" \o ToString(e.start) \o "]", 1)
      ELSE Sized(v.m, v.s \o " [" \o ToString(e.end - 1) \o ":" \o ToString(e.start) \o "]",
                 e.end - e.start))

RECURSIVE SumWidths(_, _)
SumWidths(m, ss) == IF ss = <<>> THEN 0 ELSE m.sigw[Head(ss)] + SumWidths(m, Tail(ss))

\* _ValueCompiler.on_Cat, given the lowerings of the operands, in order
OnCat(e, all) ==
    Then(all, LAMBDA v :
      Sized(v.m, "{ " \o Join(" ", Reversed(v.s)) \o " }", SumWidths(v.m, v.s)))

\* A write-side on_Const that lowers the constant as the read side does.
OnConstLhsLowers(m, e) == Ok(m, ToString(e.bits) \o "'" \o FormatB(e.value))

\* _LHSValueCompiler.on_Const
OnConstLhs(m, e) == Raise(m, "TypeError")

\* _LHSValueCompiler.on_Operator
OnOperatorLhs(m, e) == Raise(m, "TypeError")

\* _LHSValueCompiler.on_Repl
OnReplLhs(m, e) == Raise(m, "TypeError")

\* A write-side on_Signal that falls back on the current wire.
OnSignalLhsOrCurrent(m, e) ==
    Bind(Resolve(m, e.sig), LAMBDA r :
      IF r.next = None THEN Ok(r.m, r.curr) ELSE Ok(r.m, r.next))

\* _LHSValueCompiler.on_Signal
OnSignalLhs(m, e) ==
    Bind(Resolve(m, e.sig), LAMBDA r :
      IF r.next = None THEN Raise(r.m, "ValueError") ELSE Ok(r.m, r.next))

\* _RHSValueCompiler.on_Const
OnConst(m, e) ==
    IF e.isstr
    THEN Sized(m, ToString(e.bits) \o "'" \o e.sval, e.bits)
    ELSE Sized(m, ToString(e.bits) \o "'" \o FormatB(e.value), e.bits)

\* _RHSValueCompiler.on_Signal
OnSignal(m, e) == Bind(Resolve(m, e.sig), LAMBDA r : Ok(r.m, r.curr))

RECURSIVE Compile(_, _, _)
RECURSIVE CompileAll(_, _, _)
RECURSIVE CompileTimes(_, _, _, _)

\* [self(o) for o in operands]: s is the sequence of the sigspecs
CompileAll(side, m, es) ==
    IF es = <<>> THEN Ok(m, <<>>)
    ELSE Then(Compile(side, m, Head(es)), LAMBDA h :
         Then(CompileAll(side, h.m, Tail(es)), LAMBDA t :
           Ok(t.m, <<h.s>> \o t.s)))

\* self(value.value) for _ in range(count): s is the sequence of the sigspecs
CompileTimes(side, m, e, count) ==
    IF count <= 0 THEN Ok(m, <<>>)
    ELSE Then(Compile(side, m, e), LAMBDA h :
         Then(CompileTimes(side, h.m, e, count - 1), LAMBDA t :
           Ok(t.m, <<h.s>> \o t.s)))

\* _RHSValueCompiler.on_Repl
OnRepl(m, e) ==
    Then(CompileTimes("rhs", m, e.operands[1], e.count), LAMBDA v :
      Sized(v.m, "{ " \o Join(" ", v.s) \o " }", SumWidths(v.m, v.s)))

\* _RHSValueCompiler.on_Operator_unary
OnOperatorUnary(m, e) ==
    Bind(Wire(m, e.bits, None, None, None, ""), LAMBDA res :
    Then(Compile("rhs", res.m, e.operands[1]), LAMBDA a :
      Ok(Cell(a.m, OperatorMap(1, e.oper), None,
              << <<"A_SIGNED", BoolInt(e.operands[1].sign)>>,
                 <<"A_WIDTH", e.operands[1].bits>>,
                 <<"Y_WIDTH", e.bits>> >>,
              << <<"\\A", a.s>>, <<"\\Y", res.name>> >>,
              SrcOf(e.src_loc)).m, res.name)))

\* ast.Const(value.value, (new_bits, new_sign)): the same value at a new shape
ReConst(value, new_bits, new_sign) == [value EXCEPT !.bits = new_bits, !.sign = new_sign]

\* The log of the match_shape calls: the shape of the value and the target shape.
LogMatch(m, value, new_bits, new_sign) ==
    [m EXCEPT !.matches = Append(@, [from |-> Shape(value), bits |-> new_bits,
                                     sign |-> new_sign])]

\* _RHSValueCompiler.match_shape
MatchShape(m, value, new_bits, new_sign) ==
    IF value.op = "Const"
    THEN Compile("rhs", LogMatch(m, value, new_bits, new_sign),
                 ReConst(value, new_bits, new_sign))
    ELSE IF new_bits <= value.bits
    THEN Compile("rhs", LogMatch(m, value, new_bits, new_sign),
                 Slice(value, 0, new_bits))
    ELSE
    Bind(Wire(LogMatch(m, value, new_bits, new_sign), new_bits, None, None, None, ""),
         LAMBDA res :
    Then(Compile("rhs", res.m, value), LAMBDA a :
      Ok(Cell(a.m, "$pos", None,
              << <<"A_SIGNED", BoolInt(value.sign)>>, <<"A_WIDTH", value.bits>>,
                 <<"Y_WIDTH", new_bits>> >>,
              << <<"\\A", a.s>>, <<"\\Y", res.name>> >>,
              SrcOf(value.src_loc)).m, res.name)))

Max(a, b) == IF a >= b THEN a ELSE b

\* A mismatch of signedness that leaves each operand at its own width.
BinaryShapesKeepWidths(lhs, rhs) ==
    IF lhs.sign = rhs.sign
    THEN [match |-> FALSE, lhs_bits |-> lhs.bits, lhs_sign |-> lhs.sign,
          rhs_bits |-> rhs.bits, rhs_sign |-> rhs.sign]
    ELSE [match |-> TRUE, lhs_bits |-> lhs.bits, lhs_sign |-> TRUE,
          rhs_bits |-> rhs.bits, rhs_sign |-> TRUE]

\* on_Operator_binary, lines 358-367: the shape both operands are given
BinaryShapes(lhs, rhs) ==
    IF lhs.sign = rhs.sign
    THEN [match |-> FALSE, lhs_bits |-> lhs.bits, lhs_sign |-> lhs.sign,
          rhs_bits |-> rhs.bits, rhs_sign |-> rhs.sign]
    ELSE [match |-> TRUE, lhs_bits |-> Max(lhs.bits, rhs.bits), lhs_sign |-> TRUE,
          rhs_bits |-> Max(lhs.bits, rhs.bits), rhs_sign |-> TRUE]

\* _RHSValueCompiler.on_Operator_binary
OnOperatorBinary(m, e) ==
    Bind(BinaryShapes(e.operands[1], e.operands[2]), LAMBDA sh :
    Then(IF sh.match
         THEN MatchShape(m, e.operands[1], sh.lhs_bits, sh.lhs_sign)
         ELSE Compile("rhs", m, e.operands[1]), LAMBDA l :
    Then(IF sh.match
         THEN MatchShape(l.m, e.operands[2], sh.rhs_bits, sh.rhs_sign)
         ELSE Compile("rhs", l.m, e.operands[2]), LAMBDA r :
    Bind(Wire(r.m, e.bits, None, None, None, ""), LAMBDA res :
      Ok(Cell(res.m, OperatorMap(2, e.oper), None,
              << <<"A_SIGNED", BoolInt(sh.lhs_sign)>>, <<"A_WIDTH", sh.lhs_bits>>,
                 <<"B_SIGNED", BoolInt(sh.rhs_sign)>>, <<"B_WIDTH", sh.rhs_bits>>,
                 <<"Y_WIDTH", e.bits>> >>,
              << <<"\\A", l.s>>, <<"\\B", r.s>>, <<"\\Y", res.name>> >>,
              SrcOf(e.src_loc)).m, res.name)))))

\* _RHSValueCompiler.on_Operator_mux
OnOperatorMux(m, e) ==
    Bind(Max(Max(e.operands[2].bits, e.operands[3].bits), e.bits), LAMBDA bits :
    Then(MatchShape(m, e.operands[2], bits, e.operands[2].sign), LAMBDA l :
    Then(MatchShape(l.m, e.operands[3], bits, e.operands[3].sign), LAMBDA r :
    Bind(Wire(r.m, bits, None, None, None, ""), LAMBDA res :
    Then(Compile("rhs", res.m, e.operands[1]), LAMBDA sel :
      Ok(Cell(sel.m, "$mux", None,
              << <<"WIDTH", bits>> >>,
              << <<"\\A", l.s>>, <<"\\B", r.s>>, <<"\\S", sel.s>>, <<"\\Y", res.name>> >>,
              SrcOf(e.src_loc)).m, res.name))))))

\* _RHSValueCompiler.on_Operator
OnOperator(m, e) ==
    CASE Len(e.operands) = 1 -> OnOperatorUnary(m, e)
      [] Len(e.operands) = 2 -> OnOperatorBinary(m, e)
      [] Len(e.operands) = 3 -> IF e.oper = "m" THEN OnOperatorMux(m, e)
                                ELSE Raise(m, "AssertionError")
      [] OTHER -> Raise(m, "TypeError")

\* The dispatch of a value compiler on the node's type: side "rhs" is
\* _RHSValueCompiler, side "lhs" is _LHSValueCompiler; on_Slice and on_Cat are
\* the base class's for both.
Compile(side, m, e) ==
    CASE e.op = "Slice"  -> OnSlice(e, Compile(side, m, e.operands[1]))
      [] e.op = "Cat"    -> OnCat(e, CompileAll(side, m, e.operands))
      [] e.op = "Const"  -> IF side = "rhs" THEN OnConst(m, e) ELSE OnConstLhs(m, e)
      [] e.op = "Signal" -> IF side = "rhs" THEN OnSignal(m, e) ELSE OnSignalLhs(m, e)
      [] e.op = "Operator" -> IF side = "rhs" THEN OnOperator(m, e) ELSE OnOperatorLhs(m, e)
      [] e.op = "Repl"   -> IF side = "rhs" THEN OnRepl(m, e) ELSE OnReplLhs(m, e)
      [] OTHER           -> Raise(m, "NotImplementedError")

\* rhs_compiler(value) and lhs_compiler(value)
RhsCompile(m, e) == Compile("rhs", m, e)
LhsCompile(m, e) == Compile("lhs", m, e)

(***************************************************************************)
(* SpecValue: one lowering of one expression, by the read-side or the      *)
(* write-side compiler, in a module whose driven signals are registered.   *)
(***************************************************************************)
Widths == 1..MaxWidth

\* The signals of the expressions: one unsigned and one signed per width.
USig(w) == MkSignal("u" \o ToString(w), "u" \o ToString(w), w, FALSE, 1,
                    "top.py", w, <<>>)
SSig(w) == MkSignal("s" \o ToString(w), "s" \o ToString(w), w, TRUE, 0,
                    "a\"b.py", w, <<[name |-> "keep", isstr |-> FALSE, sval |-> "",
                                     ival |-> 1]>>)
ValueSignals == {USig(w) : w \in Widths} \cup {SSig(w) : w \in Widths}

DrivenChoices == {{}, {USig(w).id : w \in Widths}, {s.id : s \in ValueSignals}}

SignalRefs == {SignalRef(s) : s \in ValueSignals}
Consts == {Const(1, w, sg) : w \in Widths, sg \in BOOLEAN} \cup {ConstStr("1-", FALSE)}
Leaves == SignalRefs \cup Consts
Slices == {Slice(SignalRef(s), a, b) : s \in ValueSignals, a \in 0..MaxWidth, b \in 1..MaxWidth}
Cats ==
    {Cat(<<x, y>>) : x \in {SignalRef(USig(1)), SignalRef(SSig(2)), Const(1, 1, FALSE)},
                     y \in {SignalRef(USig(2)), Slice(SignalRef(USig(2)), 0, 1)}}
Binaries ==
    {Operator("+", <<x, y>>, Max(x.bits, y.bits) + 1, x.sign \/ y.sign) :
        x \in Leaves, y \in Leaves}
Muxes ==
    {Operator("m", <<SignalRef(USig(1)), x, y>>, w, x.sign \/ y.sign) :
        x \in Leaves, y \in Leaves, w \in {1, MaxWidth}}
Nested ==
    {Operator("&", <<Operator("~", <<SignalRef(USig(2))>>, 2, FALSE),
                     Slice(SignalRef(SSig(MaxWidth)), 0, 1)>>, 2, FALSE),
     Operator("==", <<Cat(<<SignalRef(USig(1)), SignalRef(USig(1))>>),
                      Repl(SignalRef(SSig(1)), 2)>>, 1, FALSE),
     Repl(Operator("-", <<SignalRef(SSig(1))>>, 2, TRUE), 2),
     Slice(Cat(<<SignalRef(USig(1)), SignalRef(USig(2))>>), 1, 3),
     Cat(<<SignalRef(USig(1)), Part(SignalRef(USig(2)))>>),
     Operator("+", <<SignalRef(USig(1)), ArrayProxy(SignalRef(USig(2)))>>, 3, FALSE),
     Part(SignalRef(USig(1))), ArrayProxy(SignalRef(USig(1))),
     Repl(SignalRef(USig(1)), 2), Operator("~", <<SignalRef(USig(1))>>, 1, FALSE)}

ValueExprs ==
    {e \in Slices : e.start < e.end /\ e.end <= e.operands[1].bits}
        \cup Leaves \cup Cats \cup Binaries \cup Muxes \cup Nested

ValueInit ==
    /\ \E d \in DrivenChoices :
         vm = [NewModule("\\top", <<>>) EXCEPT !.driven = [id \in d |-> FALSE]]
    /\ vside = "none"
    /\ vexpr = Node
    /\ vres = Raise(vm, "")
    /\ namer = NewNamer /\ cand = None /\ npc = "idle" /\ returned = <<>>
    /\ top = None /\ builder = None /\ stack = <<>> /\ result = <<>>

\* rhs_compiler(e)
LowerRhs(e) ==
    /\ vside = "none"
    /\ vside' = "rhs"
    /\ vexpr' = e
    /\ vres' = RhsCompile(vm, e)
    /\ vm' = vres'.m
    /\ UNCHANGED <<namerVars, fragVars>>

\* lhs_compiler(e)
LowerLhs(e) ==
    /\ vside = "none"
    /\ vside' = "lhs"
    /\ vexpr' = e
    /\ vres' = LhsCompile(vm, e)
    /\ vm' = vres'.m
    /\ UNCHANGED <<namerVars, fragVars>>

ValueNext ==
    \/ \E e \in ValueExprs : LowerRhs(e)
    \/ \E e \in ValueExprs : LowerLhs(e)

(***************************************************************************)
(* The statements and fragments handed to convert_fragment.                *)
(***************************************************************************)
\* ast.Assign, ast.Switch (cases: the entries of the case map, in the map's
\* order, each a label string or None with its statements) and a statement
\* of neither class.
Assign(lhs, rhs) ==
    [kind |-> "Assign", lhs |-> lhs, rhs |-> rhs, test |-> Node, cases |-> <<>>]
Switch(test, cases) ==
    [kind |-> "Switch", lhs |-> Node, rhs |-> Node, test |-> test, cases |-> cases]
SwitchEntry(value, stmts) == [value |-> value, stmts |-> stmts]
Other == [kind |-> "Other", lhs |-> Node, rhs |-> Node, test |-> Node, cases |-> <<>>]

\* ir.Fragment: ports is the sequence of <<signal, kind>>, drivers the
\* sequence of [domain, signals] in the order of the drivers map (domain None
\* is the combinational one), domains maps a domain name to its clock domain,
\* subfragments is the sequence of <<fragment, name>>.
ClockDomain(clk, rst, async_reset) == [clk |-> clk, rst |-> rst, async_reset |-> async_reset]
Drivers(domain, signals) == [domain |-> domain, signals |-> signals]
Fragment(ports, drivers, domains, subfragments, statements) ==
    [ports |-> ports, drivers |-> drivers, domains |-> domains,
     subfragments |-> subfragments, statements |-> statements]

\* Fragment.iter_drivers: the <<domain, signal>> pairs, domain by domain
RECURSIVE IterDrivers(_)
IterDrivers(drivers) ==
    IF drivers = <<>> THEN <<>>
    ELSE [i \in DOMAIN Head(drivers).signals |->
             <<Head(drivers).domain, Head(drivers).signals[i]>>]
         \o IterDrivers(Tail(drivers))

\* Fragment.iter_sync: the pairs of iter_drivers whose domain is not None
IterSync(drivers) == SelectSeq(IterDrivers(drivers), LAMBDA p : p[1] # None)

(***************************************************************************)
(* _ProcessBuilder, _CaseBuilder, _SwitchBuilder and _SyncBuilder.  A      *)
(* process state st is [m, pbuf, err, log]: the module, the text buffer of *)
(* the process, the exception that is propagating ("" for none) and the    *)
(* record of the Assign statements lowered so far.                         *)
(***************************************************************************)
RECURSIVE Indent(_)
Indent(n) == IF n = 0 THEN "" ELSE "  " \o Indent(n - 1)

\* _Bufferer._append on the process
PAppend(st, line) == [st EXCEPT !.pbuf = Append(@, line)]

\* A lowering made from inside the process: its module and its exception
After(st, r) == [st EXCEPT !.m = r.m, !.err = r.err]

\* _CaseBuilder.assign
CaseAssign(st, indent, lhs, rhs) == PAppend(st, <<Indent(indent), "assign", lhs, rhs>>)

\* _SwitchBuilder.__enter__
SwitchEnter(st, indent, cond) == PAppend(st, <<Indent(indent), "switch", cond>>)

\* A switch scope that closes only when its body did not raise.
SwitchExitUnlessRaised(st, indent) ==
    IF st.err # "" THEN st ELSE PAppend(st, <<Indent(indent), "end">>)

\* _SwitchBuilder.__exit__: runs however the body ended
SwitchExit(st, indent) == PAppend(st, <<Indent(indent), "end">>)

\* _SwitchBuilder.case
SwitchCase(st, indent, value) ==
    IF value = None
    THEN PAppend(st, <<Indent(indent + 1), "case">>)
    ELSE PAppend(st, <<Indent(indent + 1), "case", ToString(Len(value)) \o "'" \o value>>)

\* _SyncBuilder.__enter__
SyncEnter(st, kind, cond) ==
    IF cond = None
    THEN PAppend(st, <<"    ", "sync", kind>>)
    ELSE PAppend(st, <<"    ", "sync", kind, cond>>)

\* _SyncBuilder.update
SyncUpdate(st, lhs, rhs) == PAppend(st, <<"      ", "update", lhs, rhs>>)

(***************************************************************************)
(* _convert_stmts                                                          *)
(***************************************************************************)
\* lines 502-503: the shape an Assign hands to match_shape
AssignTarget(stmt) == [bits |-> stmt.lhs.bits, sign |-> stmt.rhs.sign]

\* lines 496-503: the lowering of the right-hand side of an Assign
AssignRhs(m, stmt) ==
    IF stmt.lhs.bits = stmt.rhs.bits
    THEN RhsCompile(m, stmt.rhs)
    ELSE MatchShape(m, stmt.rhs, AssignTarget(stmt).bits, AssignTarget(stmt).sign)

\* The record of one Assign: what was lowered, in which order, to what.
Logged(st, stmt, rhs_s, lhs_s) ==
    [st EXCEPT !.log = Append(@, [stmt |-> stmt, rhs |-> rhs_s, lhs |-> lhs_s])]

\* lines 495-504
ConvertAssign(st, indent, stmt) ==
    Bind(AssignRhs(st.m, stmt), LAMBDA r :
      IF r.err # "" THEN After(st, r)
      ELSE Bind(LhsCompile(r.m, stmt.lhs), LAMBDA l :
        IF l.err # "" THEN Logged(After(st, l), stmt, r.s, None)
        ELSE CaseAssign(Logged(After(st, l), stmt, r.s, l.s), indent, l.s, r.s)))

RECURSIVE ConvertStmts(_, _, _)
RECURSIVE ConvertCases(_, _, _)

\* lines 506-510
ConvertSwitch(st, indent, stmt) ==
    Bind(RhsCompile(st.m, stmt.test), LAMBDA t :
      IF t.err # "" THEN After(st, t)
      ELSE SwitchExit(ConvertCases(SwitchEnter(After(st, t), indent, t.s),
                                   indent, stmt.cases), indent))

\* lines 508-510
ConvertCases(st, indent, cases) ==
    IF cases = <<>> \/ st.err # "" THEN st
    ELSE ConvertCases(ConvertStmts(SwitchCase(st, indent, Head(cases).value),
                                   indent + 2, Head(cases).stmts),
                      indent, Tail(cases))

\* lines 494-513
ConvertStmt(st, indent, stmt) ==
    CASE stmt.kind = "Assign" -> ConvertAssign(st, indent, stmt)
      [] stmt.kind = "Switch" -> ConvertSwitch(st, indent, stmt)
      [] OTHER                -> [st EXCEPT !.err = "TypeError"]

ConvertStmts(st, indent, stmts) ==
    IF stmts = <<>> \/ st.err # "" THEN st
    ELSE ConvertStmts(ConvertStmt(st, indent, Head(stmts)), indent, Tail(stmts))

(***************************************************************************)
(* convert_fragment.  An activation is a frame: the fragment, the position *)
(* pc in the function body, the module with its compiler state (m), the    *)
(* process buffer (pbuf), the index i of the next subfragment, the         *)
(* exception propagating through it (err), what the subfragments converted *)
(* so far returned (rets), and its own port map.  builder is the _Builder: *)
(* its names and its text.                                                 *)
(***************************************************************************)
NewBuilder == [nm |-> NewNamer, buf |-> <<>>]

TopAttrs(istop) ==
    IF istop THEN <<[name |-> "top", isstr |-> FALSE, sval |-> "", ival |-> 1]>> ELSE <<>>

\* lines 454-455
RECURSIVE AddAllDriven(_, _)
AddAllDriven(m, pairs) ==
    IF pairs = <<>> THEN m
    ELSE AddAllDriven(AddDriven(m, Head(pairs)[2], Head(pairs)[1] # None), Tail(pairs))

\* _Builder.module, _ModuleBuilder.__enter__ and lines 447-455
EnterFragment(b, fragment, name, istop) ==
    Bind(MakeName(b.nm, IF name = None \/ name = "" THEN "anonymous" ELSE name, FALSE),
         LAMBDA r :
      [builder |-> [b EXCEPT !.nm = r.nm],
       frame |-> [frag |-> fragment, pc |-> "ports",
                  m |-> AddAllDriven(ModuleEnter(NewModule(r.name, TopAttrs(istop))),
                                     IterDrivers(fragment.drivers)),
                  pbuf |-> <<>>, i |-> 1, err |-> "", rets |-> <<>>,
                  port_map |-> <<>>, log |-> <<>>]])

\* lines 459-461
RECURSIVE PortsLowered(_, _)
PortsLowered(m, ports) ==
    IF ports = <<>> THEN m
    ELSE PortsLowered(RhsCompile(AddPort(m, Head(ports)[1], Head(ports)[2]),
                                 SignalRef(Head(ports)[1])).m, Tail(ports))

\* lines 465-468
RECURSIVE ClocksLowered(_, _, _)
ClocksLowered(m, domains, pairs) ==
    IF pairs = <<>> THEN m
    ELSE ClocksLowered(RhsCompile(RhsCompile(m, SignalRef(domains[Head(pairs)[1]].clk)).m,
                                  SignalRef(domains[Head(pairs)[1]].rst)).m,
                       domains, Tail(pairs))

\* lines 477-479: the ports dict of the cell, [m, ports]
RECURSIVE CellPorts(_, _)
CellPorts(m, port_map) ==
    IF port_map = <<>> THEN [m |-> m, ports |-> <<>>]
    ELSE Bind(RhsCompile(m, SignalRef(Head(port_map)[2])), LAMBDA h :
         Bind(CellPorts(h.m, Tail(port_map)), LAMBDA t :
           [m |-> t.m, ports |-> << <<Head(port_map)[1], h.s>> >> \o t.ports]))

\* A cell instantiated with no port connected.
SubCellUnconnected(m, sub_name, sub_port_map) ==
    LeaveHierarchy(Cell(EnterHierarchy(m, sub_name), sub_name, sub_name, <<>>, <<>>, "").m)

\* lines 476-479
SubCell(m, sub_name, sub_port_map) ==
    Bind(CellPorts(EnterHierarchy(m, sub_name), sub_port_map), LAMBDA c :
      LeaveHierarchy(Cell(c.m, sub_name, sub_name, <<>>, c.ports, "").m))

\* lines 486-489
PrevValue(domain, signal) ==
    IF domain = None THEN Const(signal.reset, signal.nbits, signal.reset < 0)
    ELSE SignalRef(signal)

\* lines 485-490
RECURSIVE DefaultsAssigned(_, _)
DefaultsAssigned(st, pairs) ==
    IF pairs = <<>> \/ st.err # "" THEN st
    ELSE DefaultsAssigned(
           Bind(LhsCompile(st.m, SignalRef(Head(pairs)[2])), LAMBDA l :
             IF l.err # "" THEN After(st, l)
             ELSE Bind(RhsCompile(l.m, PrevValue(Head(pairs)[1], Head(pairs)[2])), LAMBDA r :
               IF r.err # "" THEN After(st, r)
               ELSE CaseAssign(After(st, r), 2, l.s, r.s))),
           Tail(pairs))

\* _ModuleBuilder.process and _ProcessBuilder.__enter__
ProcessEnter(st) ==
    Bind(MakeName(st.m.nm, None, TRUE), LAMBDA r :
      [st EXCEPT !.m.nm = r.nm, !.pbuf = <<<<"  ", "process", r.name>>>>])

\* lines 520-522
RECURSIVE InitUpdated(_, _)
InitUpdated(st, pairs) ==
    IF pairs = <<>> THEN st
    ELSE InitUpdated(
           Bind(Resolve(st.m, Head(pairs)[2]), LAMBDA w :
           Bind(RhsCompile(w.m, Const(Head(pairs)[2].reset, Head(pairs)[2].nbits,
                                      Head(pairs)[2].reset < 0)), LAMBDA r :
             SyncUpdate(After(st, r), w.curr, r.s))),
           Tail(pairs))

\* Triggers that leave out the reset edge of an asynchronous reset.
TriggersOfClockOnly(m, domains, domain) ==
    IF domain = None THEN [m |-> m, triggers |-> << <<"always", None>> >>]
    ELSE Bind(ResolveCurr(m, domains[domain].clk), LAMBDA c :
           [m |-> c.m, triggers |-> << <<"posedge", c.s>> >>])

\* lines 529-536: the triggers of a domain, [m, triggers]
Triggers(m, domains, domain) ==
    IF domain = None THEN [m |-> m, triggers |-> << <<"always", None>> >>]
    ELSE Bind(ResolveCurr(m, domains[domain].clk), LAMBDA c :
           IF domains[domain].async_reset
           THEN Bind(ResolveCurr(c.m, domains[domain].rst), LAMBDA r :
                  [m |-> r.m, triggers |-> << <<"posedge", c.s>>, <<"posedge", r.s>> >>])
           ELSE [m |-> c.m, triggers |-> << <<"posedge", c.s>> >>])

\* lines 540-542
RECURSIVE SignalsUpdated(_, _)
SignalsUpdated(st, signals) ==
    IF signals = <<>> THEN st
    ELSE SignalsUpdated(Bind(Resolve(st.m, Head(signals)), LAMBDA w :
                          SyncUpdate([st EXCEPT !.m = w.m], w.curr, w.next)),
                        Tail(signals))

\* lines 538-542
RECURSIVE TriggersSynced(_, _, _)
TriggersSynced(st, triggers, signals) ==
    IF triggers = <<>> THEN st
    ELSE TriggersSynced(SignalsUpdated(SyncEnter(st, Head(triggers)[1], Head(triggers)[2]),
                                       signals),
                        Tail(triggers), signals)

\* lines 528-542
RECURSIVE DomainsSynced(_, _)
DomainsSynced(st, drivers) ==
    IF drivers = <<>> THEN st
    ELSE DomainsSynced(
           Bind(Triggers(st.m, st.frag.domains, Head(drivers).domain), LAMBDA t :
             TriggersSynced([st EXCEPT !.m = t.m], t.triggers, Head(drivers).signals)),
           Tail(drivers))

\* _ProcessBuilder.__exit__: runs however the body ended
ProcessExit(st) ==
    [st EXCEPT !.m.buf = @ \o Append(st.pbuf, <<"  ", "end">>),
               !.pbuf = Append(@, <<"  ", "end">>)]

\* _ModuleBuilder.__exit__: the module's text, closed, as written to the builder
ModuleExit(m) == Append(m.buf, <<"", "end">>)

\* lines 547-549: [m, port_map]
RECURSIVE PortMap(_, _)
PortMap(m, ports) ==
    IF ports = <<>> THEN [m |-> m, port_map |-> <<>>]
    ELSE Bind(ResolveCurr(m, Head(ports)[1]), LAMBDA h :
         Bind(PortMap(h.m, Tail(ports)), LAMBDA t :
           [m |-> t.m, port_map |-> << <<h.s, Head(ports)[1]>> >> \o t.port_map]))

(***************************************************************************)
(* Spec: convert(fragment) on a design drawn from a bounded family.        *)
(***************************************************************************)
Clk == MkSignal("clk", "clk", 1, FALSE, 0, "cd.py", 1, <<>>)
Rst == MkSignal("rst", "rst", 1, FALSE, 0, "cd.py", 2, <<>>)
PixClk == MkSignal("pix_clk", "clk", 1, FALSE, 0, "cd.py", 3, <<>>)
PixRst == MkSignal("pix_rst", "rst", 1, FALSE, 0, "cd.py", 4, <<>>)

\* The clock domains: sync, and pix with the other kind of reset.
Doms(async_reset) ==
    [sync |-> ClockDomain(Clk, Rst, async_reset),
     pix  |-> ClockDomain(PixClk, PixRst, ~async_reset)]

\* A second signal that is named u1.
Dup == MkSignal("dup", "u1", 1, FALSE, 0, "top.py", 9, <<>>)

Layouts == {"none", "comb", "sync", "both", "two"}
TopDrivers(layout) ==
    CASE layout = "none" -> <<>>
      [] layout = "comb" -> <<Drivers(None, <<USig(2), USig(MaxWidth)>>)>>
      [] layout = "sync" -> <<Drivers("sync", <<SSig(2)>>)>>
      [] layout = "both" -> <<Drivers(None, <<USig(2), USig(MaxWidth)>>),
                              Drivers("sync", <<SSig(2), SSig(1)>>)>>
      [] layout = "two"  -> <<Drivers("pix", <<USig(2)>>), Drivers("sync", <<SSig(2)>>)>>

TopPorts == << <<USig(1), "i">>, <<SSig(2), "o">>, <<Dup, "io">> >>

\* The right-hand sides and the Assign statements: every width and
\* signedness against an unsigned and a signed target of width 2.
RhsValues ==
    {SignalRef(USig(w)) : w \in Widths} \cup {SignalRef(SSig(w)) : w \in Widths}
        \cup {Const(1, w, sg) : w \in Widths, sg \in BOOLEAN}
        \cup {Operator("+", <<SignalRef(USig(1)), SignalRef(SSig(2))>>, 3, TRUE)}
Assigns == {Assign(SignalRef(l), r) : l \in {USig(2), SSig(2)}, r \in RhsValues}

A1 == Assign(SignalRef(USig(2)), SignalRef(SSig(1)))
A2 == Assign(Slice(SignalRef(USig(2)), 0, 1), SignalRef(USig(1)))
A3 == Assign(SignalRef(SSig(2)), Const(1, 2, FALSE))
T1 == SignalRef(USig(1))
T2 == Operator("&", <<SignalRef(USig(2)), SignalRef(SSig(2))>>, 2, TRUE)

Switches ==
    {Switch(T1, <<SwitchEntry("0", <<A1>>), SwitchEntry(None, <<A2>>)>>),
     Switch(T1, <<SwitchEntry(None, <<A2>>), SwitchEntry("0", <<A1>>)>>),
     Switch(T2, <<SwitchEntry("01", <<A1, A2>>), SwitchEntry("1-", <<>>)>>),
     Switch(T2, <<SwitchEntry("00", <<>>), SwitchEntry(None, <<A3>>),
                  SwitchEntry("1-", <<A3>>)>>),
     Switch(T1, <<>>),
     Switch(T2, <<SwitchEntry("-1",
                     <<Switch(T1, <<SwitchEntry("1", <<A3>>), SwitchEntry(None, <<>>)>>),
                       A3>>),
                  SwitchEntry(None, <<Switch(T1, <<SwitchEntry(None, <<A3>>)>>)>>)>>)}

\* Statements whose lowering raises.
Raising ==
    {Other,
     Assign(Const(1, 1, FALSE), SignalRef(USig(3))),
     Assign(SignalRef(USig(1)), SignalRef(USig(3))),
     Assign(SignalRef(USig(2)), Part(SignalRef(USig(3)))),
     Assign(Repl(SignalRef(USig(2)), 1), Operator("~", <<SignalRef(USig(3))>>, 3, FALSE)),
     Switch(Part(T1), <<SwitchEntry(None, <<>>)>>),
     Switch(T1, <<SwitchEntry("1", <<Switch(T1, <<SwitchEntry(None, <<A3, Other, A3>>),
                                                  SwitchEntry("1", <<A3>>)>>)>>),
                  SwitchEntry(None, <<A3>>)>>)}

StmtLists ==
    {<<>>} \cup {<<a>> : a \in Assigns} \cup {<<s, A3>> : s \in Switches}
        \cup {<<A3, r>> : r \in Raising} \cup {<<A2, A1, A3>>}

\* The subfragments: a leaf, a fragment with one subfragment, and the same
\* two with a statement that raises in the leaf.
Leaf(stmts) ==
    Fragment(<< <<USig(1), "i">>, <<USig(2), "o">>, <<Dup, "io">> >>,
             <<Drivers(None, <<USig(2)>>)>>, Doms(FALSE), <<>>, stmts)
Mid(stmts) ==
    Fragment(<< <<USig(1), "i">>, <<USig(MaxWidth), "i">> >>, <<>>, Doms(FALSE),
             << <<Leaf(stmts), "sub">> >>, <<>>)
Subs ==
    {<<Leaf(<<A1>>), "sub">>, <<Leaf(<<A1>>), None>>, <<Mid(<<A1>>), "mid">>,
     <<Leaf(<<Switch(T1, <<SwitchEntry("1", <<Other>>)>>)>>), "sub">>,
     <<Mid(<<Other>>), "sub">>}

RECURSIVE SubLists(_)
SubLists(n) ==
    IF n = 0 THEN {<<>>}
    ELSE SubLists(n - 1) \cup {Append(l, s) : l \in {k \in SubLists(n - 1) : Len(k) = n - 1},
                                              s \in Subs}

Designs ==
    {Fragment(TopPorts, TopDrivers(l), Doms(a), <<>>, s) :
        l \in Layouts, a \in BOOLEAN, s \in StmtLists}
    \cup {Fragment(TopPorts, TopDrivers("both"), Doms(a), subs, s) :
        a \in BOOLEAN, subs \in SubLists(MaxSubs), s \in {<<A1>>, <<A1, Other>>}}

Init ==
    /\ top \in Designs
    /\ builder = NewBuilder
    /\ stack = <<>>
    /\ result = <<>>
    /\ namer = NewNamer /\ cand = None /\ npc = "idle" /\ returned = <<>>
    /\ vm = None /\ vside = "none" /\ vexpr = None /\ vres = None

Frame == stack[Len(stack)]
Caller == stack[Len(stack) - 1]
At(pc) == stack # <<>> /\ Frame.pc = pc
Continue(frame) == stack' = [stack EXCEPT ![Len(stack)] = frame]
Return(frame) == stack' = Append(SubSeq(stack, 1, Len(stack) - 2), frame)
Unless(err, pc, raised) == IF err # "" THEN raised ELSE pc

\* convert, lines 554-557, up to the point where the top module is open
Convert ==
    /\ stack = <<>> /\ result = <<>>
    /\ \E e \in {EnterFragment(builder, top, "top", TRUE)} :
         builder' = e.builder /\ stack' = <<e.frame>>
    /\ UNCHANGED <<top, result, namerVars, valueVars>>

\* lines 459-461
LowerPorts ==
    /\ At("ports")
    /\ Continue([Frame EXCEPT !.m = PortsLowered(@, Frame.frag.ports), !.pc = "clocks"])
    /\ UNCHANGED <<top, builder, result, namerVars, valueVars>>

\* lines 465-468
LowerClocks ==
    /\ At("clocks")
    /\ Continue([Frame EXCEPT !.m = ClocksLowered(@, Frame.frag.domains,
                                                  IterSync(Frame.frag.drivers)),
                              !.pc = "subs"])
    /\ UNCHANGED <<top, builder, result, namerVars, valueVars>>

\* lines 473-475: the recursive call for the next subfragment
CallSub ==
    /\ At("subs") /\ Frame.i <= Len(Frame.frag.subfragments)
    /\ \E e \in {EnterFragment(builder, Frame.frag.subfragments[Frame.i][1],
                               Frame.frag.subfragments[Frame.i][2], FALSE)} :
         /\ builder' = e.builder
         /\ stack' = Append([stack EXCEPT ![Len(stack)].pc = "call"], e.frame)
    /\ UNCHANGED <<top, result, namerVars, valueVars>>

\* lines 474-479: the call returned; the cell of the subfragment
InstantiateCell ==
    /\ At("return") /\ Len(stack) > 1
    /\ Return([Caller EXCEPT !.m = SubCell(@, Frame.m.name, Frame.port_map),
                             !.rets = Append(@, [name |-> Frame.m.name,
                                                 port_map |-> Frame.port_map]),
                             !.i = @ + 1, !.pc = "subs"])
    /\ UNCHANGED <<top, builder, result, namerVars, valueVars>>

\* lines 474-475: the call raised; the exception leaves the module scope
PropagateError ==
    /\ At("raise") /\ Len(stack) > 1
    /\ Return([Caller EXCEPT !.err = Frame.err, !.pc = "mexit"])
    /\ UNCHANGED <<top, builder, result, namerVars, valueVars>>

\* lines 481-490
OpenProcess ==
    /\ At("subs") /\ Frame.i > Len(Frame.frag.subfragments)
    /\ \E st \in {DefaultsAssigned(ProcessEnter(Frame), IterDrivers(Frame.frag.drivers))} :
         Continue([st EXCEPT !.pc = Unless(st.err, "stmts", "pexit")])
    /\ UNCHANGED <<top, builder, result, namerVars, valueVars>>

\* line 515
ConvertStatements ==
    /\ At("stmts")
    /\ \E st \in {ConvertStmts(Frame, 2, Frame.frag.statements)} :
         Continue([st EXCEPT !.pc = Unless(st.err, "init", "pexit")])
    /\ UNCHANGED <<top, builder, result, namerVars, valueVars>>

\* lines 519-522
SyncInit ==
    /\ At("init")
    /\ Continue([InitUpdated(SyncEnter(Frame, "init", None), IterSync(Frame.frag.drivers))
                   EXCEPT !.pc = "triggers"])
    /\ UNCHANGED <<top, builder, result, namerVars, valueVars>>

\* lines 528-542
SyncTriggers ==
    /\ At("triggers")
    /\ Continue([DomainsSynced(Frame, Frame.frag.drivers) EXCEPT !.pc = "pexit"])
    /\ UNCHANGED <<top, builder, result, namerVars, valueVars>>

\* _ProcessBuilder.__exit__, leaving line 481's scope
ExitProcess ==
    /\ At("pexit")
    /\ Continue([ProcessExit(Frame) EXCEPT !.pc = "mexit"])
    /\ UNCHANGED <<top, builder, result, namerVars, valueVars>>

\* A module that writes its text in front of what the builder holds.
ExitModuleFirst ==
    /\ At("mexit")
    /\ builder' = [builder EXCEPT !.buf = ModuleExit(Frame.m) \o @]
    /\ Continue([Frame EXCEPT !.m.buf = ModuleExit(Frame.m),
                              !.pc = Unless(Frame.err, "portmap", "raise")])
    /\ UNCHANGED <<top, result, namerVars, valueVars>>

\* _ModuleBuilder.__exit__, leaving line 447's scope
ExitModule ==
    /\ At("mexit")
    /\ builder' = [builder EXCEPT !.buf = @ \o ModuleExit(Frame.m)]
    /\ Continue([Frame EXCEPT !.m.buf = ModuleExit(Frame.m),
                              !.pc = Unless(Frame.err, "portmap", "raise")])
    /\ UNCHANGED <<top, result, namerVars, valueVars>>

\* lines 547-551
ReturnPortMap ==
    /\ At("portmap")
    /\ \E r \in {PortMap(Frame.m, Frame.frag.ports)} :
         Continue([Frame EXCEPT !.m = r.m, !.port_map = r.port_map, !.pc = "return"])
    /\ UNCHANGED <<top, builder, result, namerVars, valueVars>>

\* line 557: the outermost call returns or raises
Finish ==
    /\ (At("return") \/ At("raise")) /\ Len(stack) = 1
    /\ result' = <<[name |-> Frame.m.name, port_map |-> Frame.port_map,
                    err |-> Frame.err]>>
    /\ stack' = <<>>
    /\ UNCHANGED <<top, builder, namerVars, valueVars>>

Next ==
    \/ Convert
    \/ LowerPorts
    \/ LowerClocks
    \/ CallSub
    \/ InstantiateCell
    \/ PropagateError
    \/ OpenProcess
    \/ ConvertStatements
    \/ SyncInit
    \/ SyncTriggers
    \/ ExitProcess
    \/ ExitModule
    \/ ReturnPortMap
    \/ Finish

(***************************************************************************)
(* The specifications.  Each one drives its own variables and leaves the   *)
(* others at rest.                                                         *)
(***************************************************************************)
SpecNamer == NamerInit /\ [][NamerNext]_vars /\ WF_vars(NamerNext)

SpecValue == ValueInit /\ [][ValueNext]_vars

Spec == Init /\ [][Next]_vars

(***************************************************************************)
(* Reading the emitted text back: the cells of a buffer.                   *)
(***************************************************************************)
\* The lines that open a cell.
CellStarts(buf) == {i \in DOMAIN buf : Len(buf[i]) = 4 /\ buf[i][2] = "cell"}

\* The parameter and connect lines of the cell opened at line i.
CellLines(buf, i) ==
    {j \in (i + 1)..Len(buf) : \A k \in (i + 1)..j : buf[k][1] = "    "}

CellKind(buf, i) == buf[i][3]

\* The value of a parameter, and the sigspec connected to a port, of the cell at i.
CellField(buf, i, kw, key) ==
    buf[CHOOSE j \in CellLines(buf, i) : buf[j][2] = kw /\ buf[j][3] = key][4]
CellParam(buf, i, p) == CellField(buf, i, "parameter", "\\" \o p)
CellPort(buf, i, p)  == CellField(buf, i, "connect", "\\" \o p)

\* The width of what is connected to a port, as a parameter value would state it.
PortWidth(m, i, p) == ToString(m.sigw[CellPort(m.buf, i, p)])

BinaryOps == {"+", "-", "*", "/", "%", "**", "<<", ">>", "&", "^", "|",
              "==", "!=", "<", "<=", ">", ">="}
BinaryKinds == {OperatorMap(2, k) : k \in BinaryOps}

LastCell(buf) == CHOOSE i \in CellStarts(buf) : \A j \in CellStarts(buf) : j <= i

(***************************************************************************)
(* C1                                                                      *)
(***************************************************************************)
\* A target made of driven signals through slices and concatenations only.
RECURSIVE LhsLegal(_, _)
LhsLegal(m, e) ==
    CASE e.op = "Signal" -> e.sig.id \in DOMAIN m.driven
      [] e.op = "Slice"  -> LhsLegal(m, e.operands[1])
      [] e.op = "Cat"    -> \A i \in DOMAIN e.operands : LhsLegal(m, e.operands[i])
      [] OTHER           -> FALSE

BinaryDeclaredOk(m, i) ==
    /\ CellParam(m.buf, i, "A_WIDTH") = PortWidth(m, i, "A")
    /\ CellParam(m.buf, i, "B_WIDTH") = PortWidth(m, i, "B")
    /\ CellParam(m.buf, i, "Y_WIDTH") = PortWidth(m, i, "Y")
    /\ CellParam(m.buf, i, "A_SIGNED") = CellParam(m.buf, i, "B_SIGNED")

MuxDeclaredOk(m, i) ==
    /\ CellParam(m.buf, i, "WIDTH") = PortWidth(m, i, "A")
    /\ CellParam(m.buf, i, "WIDTH") = PortWidth(m, i, "B")
    /\ CellParam(m.buf, i, "WIDTH") = PortWidth(m, i, "Y")

\* C2 as stated: in every binary-operator cell and every mux cell, A and B
\* have the same width (and, where the cell declares it, the same signedness),
\* and the declared widths are the widths of what is connected.
C2_OperandsMatch ==
    \A i \in CellStarts(vm.buf) :
        /\ CellKind(vm.buf, i) \in BinaryKinds =>
              BinaryDeclaredOk(vm, i) /\ PortWidth(vm, i, "A") = PortWidth(vm, i, "B")
        /\ CellKind(vm.buf, i) = "$mux" => MuxDeclaredOk(vm, i)

\* C2 as amended: every binary cell declares the same signedness for A and B
\* and the widths of what is connected; A and B have the same width, the
\* wider of the two operands', when the operands differ in signedness, and
\* each keeps its operand's own width when they agree in signedness; in every
\* mux cell A, B and Y all have the declared WIDTH.
C2_DeclaredWidths ==
    /\ \A i \in CellStarts(vm.buf) :
        /\ CellKind(vm.buf, i) \in BinaryKinds => BinaryDeclaredOk(vm, i)
        /\ CellKind(vm.buf, i) = "$mux" => MuxDeclaredOk(vm, i)
    /\ (vside = "rhs" /\ vres.err = "" /\ vexpr.op = "Operator" /\ Len(vexpr.operands) = 2)
        => IF vexpr.operands[1].sign # vexpr.operands[2].sign
           THEN /\ PortWidth(vm, LastCell(vm.buf), "A")
                     = ToString(Max(vexpr.operands[1].bits, vexpr.operands[2].bits))
                /\ PortWidth(vm, LastCell(vm.buf), "B")
                     = ToString(Max(vexpr.operands[1].bits, vexpr.operands[2].bits))
           ELSE /\ PortWidth(vm, LastCell(vm.buf), "A") = ToString(vexpr.operands[1].bits)
                /\ PortWidth(vm, LastCell(vm.buf), "B") = ToString(vexpr.operands[2].bits)

\* A binary operator over operands of different signedness and width, lowered.
C2_Witness ==
    /\ vside = "rhs" /\ vres.err = "" /\ vexpr.op = "Operator" /\ Len(vexpr.operands) = 2
    /\ vexpr.operands[1].sign # vexpr.operands[2].sign
    /\ vexpr.operands[1].bits < vexpr.operands[2].bits
    /\ CellKind(vm.buf, LastCell(vm.buf)) = "$add"

(***************************************************************************)
(* C6                                                                      *)
(***************************************************************************)
\* C6: every name an allocator returns differs from every name it returned
\* before, and every allocate call comes to return.
C6_Distinct ==
    \A i, j \in DOMAIN returned : i # j => returned[i] # returned[j]

C6_UniqueAndTerminates == []C6_Distinct /\ (npc = "loop" ~> npc = "idle")

\* A requested name that is a name the allocator generated: it collides and is
\* suffixed again.
C6_Witness == npc = "idle" /\ \E i \in DOMAIN returned : returned[i] = "\\a$1$2"

(***************************************************************************)
(* Reading a conversion back: the activations and the text of a process.   *)
(***************************************************************************)
Frames == {stack[i] : i \in DOMAIN stack}

\* The activations whose process is open or was open: pbuf holds its text.
ProcessFrames == {f \in Frames : f.pbuf # <<>>}

StartsWith(s, p) == Len(s) >= Len(p) /\ SubSeq(s, 1, Len(p)) = p

\* The w-bit binary rendering of v, most significant bit first.
RECURSIVE Bits(_, _)
Bits(v, w) == IF w = 0 THEN "" ELSE Bits(v \div 2, w - 1) \o ToString(v % 2)

(***************************************************************************)
(* C3                                                                      *)
(***************************************************************************)
\* C3: for every Assign lowered, the right-hand side is lowered before the
\* left-hand side (when the target's lowering raises, the right-hand side has
\* its sigspec already); when the widths differ the right-hand side is
\* matched to the shape of the target, its width and its signedness; and the
\* assign that is emitted has equal widths on both sides.
C3_AssignCoerced ==
    \A f \in Frames : \A k \in DOMAIN f.log :
        /\ f.log[k].rhs \in DOMAIN f.m.sigw
        /\ f.log[k].stmt.lhs.bits # f.log[k].stmt.rhs.bits =>
              \E c \in DOMAIN f.m.matches :
                  f.m.matches[c] = [from |-> Shape(f.log[k].stmt.rhs),
                                    bits |-> f.log[k].stmt.lhs.bits,
                                    sign |-> f.log[k].stmt.lhs.sign]
        /\ f.log[k].lhs # None =>
              /\ f.m.sigw[f.log[k].lhs] = f.m.sigw[f.log[k].rhs]
              /\ \E j \in DOMAIN f.pbuf :
                    /\ Len(f.pbuf[j]) = 4 /\ f.pbuf[j][2] = "assign"
                    /\ f.pbuf[j][3] = f.log[k].lhs /\ f.pbuf[j][4] = f.log[k].rhs

(***************************************************************************)
(* C4                                                                      *)
(***************************************************************************)
\* What C4 states a driven signal is assigned by default: the W-bit literal
\* of its reset value in the combinational domain, its current wire otherwise.
DefaultStated(f, pair) ==
    IF pair[1] = None
    THEN ToString(pair[2].nbits) \o "'" \o Bits(pair[2].reset, pair[2].nbits)
    ELSE f.m.wires[pair[2].id].curr

\* C4: the text of a process begins with one assign per driven signal, in the
\* order of the drivers, to the signal's next wire: of the W-bit
\* most-significant-bit-first literal of the reset value for a combinationally
\* driven signal, of the signal's current wire for a synchronously driven
\* one; no statement's assign comes before them.
C4_DefaultAssigns ==
    \A f \in ProcessFrames :
        /\ Len(f.pbuf) > Len(IterDrivers(f.frag.drivers))
        /\ f.pbuf[1][2] = "process"
        /\ \A k \in DOMAIN IterDrivers(f.frag.drivers) :
              f.pbuf[k + 1] = <<"    ", "assign",
                                f.m.wires[IterDrivers(f.frag.drivers)[k][2].id].next,
                                DefaultStated(f, IterDrivers(f.frag.drivers)[k])>>

(***************************************************************************)
(* C5                                                                      *)
(***************************************************************************)
\* The Switch statements of a statement list, outermost first, in the order
\* in which they are lowered.
RECURSIVE SwitchesOf(_)
RECURSIVE SwitchesOfCases(_)
SwitchesOf(stmts) ==
    IF stmts = <<>> THEN <<>>
    ELSE (IF Head(stmts).kind = "Switch"
          THEN <<Head(stmts)>> \o SwitchesOfCases(Head(stmts).cases)
          ELSE <<>>) \o SwitchesOf(Tail(stmts))
SwitchesOfCases(cases) ==
    IF cases = <<>> THEN <<>>
    ELSE SwitchesOf(Head(cases).stmts) \o SwitchesOfCases(Tail(cases))

\* The lines that open a switch in a process text, in order.
SwitchLines(pbuf) ==
    SelectSeq([j \in DOMAIN pbuf |-> j], LAMBDA j : pbuf[j][2] = "switch")

\* The line that closes the switch opened at line j.
SwitchEnd(pbuf, j) ==
    CHOOSE e \in j + 1..Len(pbuf) :
        /\ pbuf[e] = <<pbuf[j][1], "end">>
        /\ \A x \in j + 1..e - 1 : pbuf[x] # <<pbuf[j][1], "end">>

\* The branches of the switch opened at line j: its case lines, in order.
Branches(pbuf, j) ==
    SelectSeq([x \in 1..SwitchEnd(pbuf, j) - j - 1 |-> pbuf[j + x]],
              LAMBDA l : l[1] = pbuf[j][1] \o "  " /\ l[2] = "case")

\* The case line C5 states for an entry of the case map.
BranchStated(indent, entry) ==
    IF entry.value = None THEN <<indent \o "  ", "case">>
    ELSE <<indent \o "  ", "case", ToString(Len(entry.value)) \o "'" \o entry.value>>

\* The cells the tests of the switches are lowered to: one per test that is
\* an operator.
TestCells(sws) == Len(SelectSeq(sws, LAMBDA s : s.test.op = "Operator"))

\* C5: once the statements of a fragment are lowered, its process has one
\* switch per Switch statement, whose test was lowered once (one $and cell
\* per test that is an & operator, the only source of such cells here); each
\* switch has one case line per entry of its case map, a labelled one
\* rendered <width>'<bitstring>; and the unlabelled default branch is the
\* last branch of its switch, however the case map is ordered.
C5_SwitchBranches ==
    \A f \in ProcessFrames :
        (f.err = "" /\ f.pc \notin {"subs", "stmts"}) =>
            /\ Len(SwitchLines(f.pbuf)) = Len(SwitchesOf(f.frag.statements))
            /\ Cardinality({i \in CellStarts(f.m.buf) : CellKind(f.m.buf, i) = "$and"})
                  = TestCells(SwitchesOf(f.frag.statements))
            /\ \A k \in DOMAIN SwitchLines(f.pbuf) :
                /\ Len(Branches(f.pbuf, SwitchLines(f.pbuf)[k]))
                      = Len(SwitchesOf(f.frag.statements)[k].cases)
                /\ \A c \in DOMAIN SwitchesOf(f.frag.statements)[k].cases :
                      \E b \in DOMAIN Branches(f.pbuf, SwitchLines(f.pbuf)[k]) :
                          Branches(f.pbuf, SwitchLines(f.pbuf)[k])[b]
                              = BranchStated(f.pbuf[SwitchLines(f.pbuf)[k]][1],
                                             SwitchesOf(f.frag.statements)[k].cases[c])
                /\ \A b \in DOMAIN Branches(f.pbuf, SwitchLines(f.pbuf)[k]) :
                      Len(Branches(f.pbuf, SwitchLines(f.pbuf)[k])[b]) = 2
                          => b = Len(Branches(f.pbuf, SwitchLines(f.pbuf)[k]))

(***************************************************************************)
(* C7                                                                      *)
(***************************************************************************)
Lines(buf) == {buf[i] : i \in DOMAIN buf}

\* The lines of a text that open a construct, and those that close one.
Opens(buf) == {i \in DOMAIN buf : buf[i][2] \in {"module", "process", "cell", "switch"}}
Closes(buf) == {i \in DOMAIN buf : buf[i][2] = "end"}

\* Every construct a text opens is closed by exactly one end, innermost
\* first.  A construct is indented deeper than the one it is in, so this is:
\* as many ends as openings, and every end follows an opening of its own
\* indentation with nothing between the two but deeper lines.
WellNested(buf) ==
    /\ Cardinality(Opens(buf)) = Cardinality(Closes(buf))
    /\ \A e \in Closes(buf) :
          \E j \in Opens(buf) :
              /\ j < e /\ buf[j][1] = buf[e][1]
              /\ \A x \in (j + 1)..(e - 1) :
                    x \in Opens(buf) \cup Closes(buf) => Len(buf[x][1]) > Len(buf[e][1])

IsSuffix(s, buf) == Len(s) <= Len(buf) /\ SubSeq(buf, Len(buf) - Len(s) + 1, Len(buf)) = s

\* A statement that raises is somewhere in the statements.
RECURSIVE HasOther(_)
RECURSIVE HasOtherInCases(_)
HasOther(stmts) ==
    /\ stmts # <<>>
    /\ \/ Head(stmts).kind = "Other"
       \/ HasOtherInCases(Head(stmts).cases)
       \/ HasOther(Tail(stmts))
HasOtherInCases(cases) ==
    cases # <<>> /\ (HasOther(Head(cases).stmts) \/ HasOtherInCases(Tail(cases)))

\* ... or in the statements of a subfragment, at any depth.
RECURSIVE MustRaise(_)
MustRaise(fragment) ==
    \/ HasOther(fragment.statements)
    \/ \E i \in DOMAIN fragment.subfragments : MustRaise(fragment.subfragments[i][1])

\* C7: when an exception leaves a scope, the scope is closed and flushed all
\* the same.  A process left by an exception has its whole text, well nested
\* (every switch closed) and closed by its end, at the end of its module's
\* text; a module left by an exception has its text, well nested and closed,
\* at the end of the builder's text; the builder's text is well nested at all
\* times, and when convert has raised it holds one module block for every
\* module that was opened; and the exception reaches the caller: a design
\* with a statement that raises, at any depth, ends in an exception.
C7_ScopesClosed ==
    /\ WellNested(builder.buf)
    /\ \A f \in Frames :
        /\ (f.err # "" /\ f.pc = "mexit" /\ f.pbuf # <<>>) =>
              /\ WellNested(f.pbuf)
              /\ f.pbuf[1][2] = "process" /\ f.pbuf[Len(f.pbuf)] = <<"  ", "end">>
              /\ IsSuffix(f.pbuf, f.m.buf)
        /\ f.pc = "raise" =>
              /\ f.err # ""
              /\ WellNested(f.m.buf)
              /\ f.m.buf[Len(f.m.buf)] = <<"", "end">>
              /\ IsSuffix(f.m.buf, builder.buf)
    /\ result # <<>> =>
        /\ MustRaise(top) => result[1].err # ""
        /\ result[1].err # "" =>
              Cardinality({i \in DOMAIN builder.buf : builder.buf[i][2] = "module"})
                  = Cardinality(builder.nm.names)

\* An exception raised inside a switch of a subfragment has reached the
\* caller of convert; the text holds the switch and the modules of the
\* subfragment and of its parent.
C7_Witness ==
    /\ result # <<>> /\ result[1].err = "TypeError"
    /\ \E l \in Lines(builder.buf) : l[2] = "switch"
    /\ Cardinality({i \in DOMAIN builder.buf : builder.buf[i][2] = "module"}) > 1
    /\ builder.buf[Len(builder.buf)] = <<"", "end">>

(***************************************************************************)
(* C8                                                                      *)
(***************************************************************************)
\* The cells of a module text that instantiate a module (their kind is a
\* module name, which begins with a backslash), in order.
SubCellLines(buf) ==
    SelectSeq([j \in DOMAIN buf |-> j],
              LAMBDA j : Len(buf[j]) = 4 /\ buf[j][2] = "cell"
                           /\ SubSeq(buf[j][3], 1, 1) = "\\")

\* The lines between the cell line i and the cell's end, in order.
CellBody(buf, i) == [j \in 1..Cardinality(CellLines(buf, i)) |-> buf[i + j]]

\* The current wire of a signal in an activation, None while it has none.
CurrentWire(f, signal) ==
    IF signal.id \in DOMAIN f.m.wires THEN f.m.wires[signal.id].curr ELSE None

\* The module name asked for a subfragment.
NameAsked(name) == "\\" \o (IF name = None THEN "anonymous" ELSE name)

\* C8: in every activation the cells that instantiate modules are, in order,
\* one per subfragment converted so far (all of them once the subfragments
\* are done); the kind of the k-th cell is the module name the conversion of
\* the k-th subfragment returned, which is the name asked for it or that name
\* made unique, differs from the names returned for the other subfragments
\* and is the name of a module in the builder's text; and the cell connects,
\* in the order of the returned port map, exactly the keys of that port map,
\* each to the parent's current wire of the key's signal.
C8_OneCellPerChild ==
    \A f \in Frames :
        /\ Len(SubCellLines(f.m.buf)) = Len(f.rets)
        /\ Len(f.rets) <= Len(f.frag.subfragments)
        /\ f.pc \in {"stmts", "init", "triggers", "pexit", "portmap", "return"}
              => Len(f.rets) = Len(f.frag.subfragments)
        /\ \A k \in DOMAIN f.rets :
            /\ CellKind(f.m.buf, SubCellLines(f.m.buf)[k]) = f.rets[k].name
            /\ \/ f.rets[k].name = NameAsked(f.frag.subfragments[k][2])
               \/ StartsWith(f.rets[k].name, NameAsked(f.frag.subfragments[k][2]) \o "$")
            /\ \A j \in DOMAIN f.rets : j # k => f.rets[j].name # f.rets[k].name
            /\ <<"", "module", f.rets[k].name>> \in Lines(builder.buf)
            /\ CellBody(f.m.buf, SubCellLines(f.m.buf)[k])
                  = [j \in DOMAIN f.rets[k].port_map |->
                        <<"    ", "connect", f.rets[k].port_map[j][1],
                          CurrentWire(f, f.rets[k].port_map[j][2])>>]

\* Two subfragments that ask for the same name, both instantiated: the cells
\* are of kind \sub and \sub$1 and connect the three ports of each.
C8_Witness ==
    \E f \in Frames :
        /\ f.pc = "return" /\ Len(f.rets) = 2
        /\ f.rets[1].name = "\\sub" /\ f.rets[2].name = "\\sub$1"
        /\ Len(CellBody(f.m.buf, SubCellLines(f.m.buf)[2])) = 3

(***************************************************************************)
(* C9                                                                      *)
(***************************************************************************)
\* The sync blocks of a process text from line i on, in order, after the
\* blocks acc: what follows the word sync, and the updates as <<lhs, rhs>>.
RECURSIVE SyncBlocks(_, _, _)
SyncBlocks(pbuf, i, acc) ==
    IF i > Len(pbuf) THEN acc
    ELSE IF pbuf[i][2] = "sync"
    THEN SyncBlocks(pbuf, i + 1,
                    Append(acc, [head |-> Tail(Tail(pbuf[i])), updates |-> <<>>]))
    ELSE IF pbuf[i][2] = "update" /\ acc # <<>>
    THEN SyncBlocks(pbuf, i + 1,
                    [acc EXCEPT ![Len(acc)].updates = Append(@, <<pbuf[i][3], pbuf[i][4]>>)])
    ELSE SyncBlocks(pbuf, i + 1, acc)

\* One update per signal of a domain: the next wire into the current wire.
UpdatesStated(f, signals) ==
    [k \in DOMAIN signals |-> <<f.m.wires[signals[k].id].curr,
                                f.m.wires[signals[k].id].next>>]

\* The trigger blocks C9 states for the domains in use, in the drivers' order.
RECURSIVE TriggersStated(_, _)
TriggersStated(f, drivers) ==
    IF drivers = <<>> THEN <<>>
    ELSE (IF Head(drivers).domain = None
          THEN <<[head |-> <<"always">>,
                  updates |-> UpdatesStated(f, Head(drivers).signals)]>>
          ELSE <<[head |-> <<"posedge",
                             CurrentWire(f, f.frag.domains[Head(drivers).domain].clk)>>,
                  updates |-> UpdatesStated(f, Head(drivers).signals)]>>
               \o (IF f.frag.domains[Head(drivers).domain].async_reset
                   THEN <<[head |-> <<"posedge",
                                      CurrentWire(f, f.frag.domains[Head(drivers).domain].rst)>>,
                           updates |-> UpdatesStated(f, Head(drivers).signals)]>>
                   ELSE <<>>))
         \o TriggersStated(f, Tail(drivers))

\* C9: once the triggers of a fragment are emitted, the sync blocks of its
\* process after the init block are exactly, in the order of the drivers: for
\* the combinational domain one always block; for a synchronous domain one
\* posedge block on its clock's wire, followed by one posedge block on its
\* reset's wire if and only if the domain's reset is asynchronous; and each of
\* these blocks holds exactly one update per signal driven in the domain, of
\* the signal's current wire from its next wire, which exists.
C9_TriggerBlocks ==
    \A f \in ProcessFrames :
        (f.err = "" /\ f.pc \in {"pexit", "mexit", "portmap", "return"}) =>
            /\ SyncBlocks(f.pbuf, 1, <<>>) # <<>>
            /\ Head(SyncBlocks(f.pbuf, 1, <<>>)).head = <<"init">>
            /\ Tail(SyncBlocks(f.pbuf, 1, <<>>)) = TriggersStated(f, f.frag.drivers)
            /\ \A b \in DOMAIN SyncBlocks(f.pbuf, 1, <<>>) :
                  \A u \in DOMAIN SyncBlocks(f.pbuf, 1, <<>>)[b].updates :
                      SyncBlocks(f.pbuf, 1, <<>>)[b].updates[u][2] # None

\* A fragment with a combinational domain and a synchronous domain whose
\* reset is asynchronous: an always block, a posedge \clk block and a posedge
\* \rst block, the last with the two signals of the domain.
C9_Witness ==
    \E f \in ProcessFrames :
        /\ f.pc = "return"
        /\ Len(SyncBlocks(f.pbuf, 1, <<>>)) = 4
        /\ SyncBlocks(f.pbuf, 1, <<>>)[2].head = <<"always">>
        /\ SyncBlocks(f.pbuf, 1, <<>>)[3].head = <<"posedge", "\\clk">>
        /\ SyncBlocks(f.pbuf, 1, <<>>)[4] =
              [head |-> <<"posedge", "\\rst">>,
               updates |-> << <<"\\s2", "\\s2$next">>, <<"\\s1", "\\s1$next">> >>]

(***************************************************************************)
(* C10                                                                     *)
(***************************************************************************)
\* The word a wire declaration has for a port's direction.
DirectionStated(kind) ==
    CASE kind = "i" -> "input" [] kind = "o" -> "output" [] kind = "io" -> "inout"

\* The lines of a module text that declare the wire name.
Declarations(buf, name) ==
    {i \in DOMAIN buf : buf[i][2] = "wire" /\ buf[i][Len(buf[i])] = name}

\* The position of a signal among the ports of a fragment, 0 if it is none.
PortIndex(ports, signal) ==
    IF \E k \in DOMAIN ports : ports[k][1] = signal
    THEN CHOOSE k \in DOMAIN ports : ports[k][1] = signal
    ELSE 0

\* C10: the port map a conversion returns has one entry per port of the
\* fragment, in the ports' order; the value of the k-th entry is the k-th
\* port signal and its key is that signal's current wire, whose name is the
\* signal's name behind a backslash (made unique with a $ suffix on a
\* collision) and so carries no hierarchy prefix, and which the module
\* declares once, with the signal's width, the port's direction and the
\* index k-1; and a cell that connects a port signal of the parent, lowered
\* under the subfragment's prefix, connects that same wire.
C10_PortMap ==
    \A f \in Frames :
        f.pc = "return" =>
            /\ Len(f.port_map) = Len(f.frag.ports)
            /\ \A k \in DOMAIN f.port_map :
                /\ f.port_map[k][2] = f.frag.ports[k][1]
                /\ f.port_map[k][1] = CurrentWire(f, f.frag.ports[k][1])
                /\ \/ f.port_map[k][1] = "\\" \o f.frag.ports[k][1].name
                   \/ StartsWith(f.port_map[k][1], "\\" \o f.frag.ports[k][1].name \o "$")
                /\ Cardinality(Declarations(f.m.buf, f.port_map[k][1])) = 1
                /\ \A i \in Declarations(f.m.buf, f.port_map[k][1]) :
                      f.m.buf[i] = <<"  ", "wire", "width",
                                     ToString(f.frag.ports[k][1].nbits),
                                     DirectionStated(f.frag.ports[k][2]),
                                     ToString(k - 1), f.port_map[k][1]>>
            /\ \A c \in DOMAIN f.rets : \A j \in DOMAIN f.rets[c].port_map :
                  PortIndex(f.frag.ports, f.rets[c].port_map[j][2]) # 0 =>
                      CellBody(f.m.buf, SubCellLines(f.m.buf)[c])[j][4]
                          = f.port_map[PortIndex(f.frag.ports, f.rets[c].port_map[j][2])][1]

\* A fragment with three ports, two of them named u1, whose subfragment has
\* the same two signals as ports: the port map is \u1, \s2, \u1$1 and the
\* subfragment's cell connects \u1 and \u1$1, not \sub_u1.
C10_Witness ==
    \E f \in Frames :
        /\ f.pc = "return" /\ Len(f.rets) > 0
        /\ [k \in DOMAIN f.port_map |-> f.port_map[k][1]] = <<"\\u1", "\\s2", "\\u1$1">>
        /\ f.rets[1].name = "\\sub"
        /\ CellBody(f.m.buf, SubCellLines(f.m.buf)[1])[3]
              = <<"    ", "connect", "\\u1$1", "\\u1$1">>

(***************************************************************************)
(* C11                                                                     *)
(***************************************************************************)
\* The signals registered as driven in the activation of a fragment.
DrivenIds(fragment) ==
    {IterDrivers(fragment.drivers)[i][2].id : i \in DOMAIN IterDrivers(fragment.drivers)}

\* The assign lines of a process text.
AssignLines(pbuf) == {j \in DOMAIN pbuf : pbuf[j][2] = "assign"}

\* C11: in every activation, a signal that has been resolved has a current
\* wire, declared in the module, and has a next wire, declared too, if and
\* only if the fragment registered it as driven; an Assign whose target is a
\* signal that is not registered as driven raises ValueError, ends the
\* lowering of the statements and emits no assign (the assigns of the process
\* are the defaults and one per Assign whose target was lowered); an Assign
\* whose target is a driven signal is emitted on that signal's next wire.
C11_NextIffDriven ==
    \A f \in Frames :
        /\ DOMAIN f.m.driven = DrivenIds(f.frag)
        /\ \A id \in DOMAIN f.m.wires :
            /\ f.m.wires[id].curr # None
            /\ Declarations(f.m.buf, f.m.wires[id].curr) # {}
            /\ f.m.wires[id].next # None <=> id \in DrivenIds(f.frag)
            /\ f.m.wires[id].next # None =>
                  Declarations(f.m.buf, f.m.wires[id].next) # {}
        /\ f.pbuf # <<>> =>
              Cardinality(AssignLines(f.pbuf))
                  = Len(IterDrivers(f.frag.drivers))
                      + Cardinality({k \in DOMAIN f.log : f.log[k].lhs # None})
        /\ \A k \in DOMAIN f.log :
              f.log[k].stmt.lhs.op = "Signal" =>
                  IF f.log[k].stmt.lhs.sig.id \in DrivenIds(f.frag)
                  THEN f.log[k].lhs = f.m.wires[f.log[k].stmt.lhs.sig.id].next
                  ELSE /\ f.log[k].lhs = None
                       /\ f.err = "ValueError"
                       /\ k = Len(f.log)
                       /\ f.pc \in {"pexit", "mexit", "raise"}

\* An Assign to a signal the fragment does not drive, after one to a signal it
\* drives: the first is emitted on the next wire, the second raised
\* ValueError and the signal, resolved by then, has a current wire only.
C11_Witness ==
    \E f \in Frames :
        /\ f.err = "ValueError" /\ Len(f.log) = 2
        /\ f.log[1].lhs = "\\s2$next"
        /\ f.log[2].stmt.lhs.op = "Signal" /\ f.log[2].lhs = None
        /\ f.log[2].stmt.lhs.sig.id \in DOMAIN f.m.wires
        /\ f.m.wires[f.log[2].stmt.lhs.sig.id].next = None


(***************************************************************************)
(* C12                                                                     *)
(***************************************************************************)
\* The lines of a text at the outermost indentation, in order.
Outer(buf) == SelectSeq([j \in DOMAIN buf |-> j], LAMBDA j : buf[j][1] = "")

\* The module lines of a text, in order.
ModuleLines(buf) ==
    SelectSeq([j \in DOMAIN buf |-> j],
              LAMBDA j : buf[j][1] = "" /\ buf[j][2] = "module")

\* A text is a flat sequence of complete module blocks: a block is a run of
\* attribute lines, a module line, indented lines, and an end; there is
\* nothing between two blocks, and no outermost line inside of one.  ol is
\* Outer(buf).
BlocksOf(buf, ol) ==
    /\ buf # <<>> => buf[1][1] = "" /\ buf[Len(buf)] = <<"", "end">>
    /\ \A p \in DOMAIN ol :
        IF buf[ol[p]][2] = "attribute"
        THEN /\ p < Len(ol) /\ ol[p + 1] = ol[p] + 1
             /\ buf[ol[p + 1]][2] \in {"attribute", "module"}
        ELSE IF buf[ol[p]][2] = "module"
        THEN /\ p > 1 /\ buf[ol[p - 1]][2] = "attribute"
             /\ p < Len(ol) /\ buf[ol[p + 1]] = <<"", "end">>
        ELSE /\ buf[ol[p]] = <<"", "end">>
             /\ p > 1 /\ buf[ol[p - 1]][2] = "module"
             /\ p < Len(ol) => (ol[p + 1] = ol[p] + 1 /\ buf[ol[p + 1]][2] = "attribute")
FlatBlocks(buf) == BlocksOf(buf, Outer(buf))

\* The module line i is marked with the top attribute.
MarkedTop(buf, i) ==
    \E x \in 1..(i - 1) :
        /\ buf[x] = <<"", "attribute", "\\top", "1">>
        /\ \A y \in x..(i - 1) : buf[y][1] = "" /\ buf[y][2] = "attribute"

\* The last line of the block of the k-th module line; ml is ModuleLines(buf).
BlockEnd(buf, ml, k) ==
    IF k < Len(ml) THEN ml[k + 1] - 1 ELSE Len(buf)

\* The kinds of the cells of the k-th block that instantiate modules.
Instantiated(buf, ml, k) ==
    {buf[j][3] : j \in {x \in ml[k]..BlockEnd(buf, ml, k) :
                          buf[x][2] = "cell" /\ SubSeq(buf[x][3], 1, 1) = "\\"}}

\* The module names asked for the fragments of a hierarchy, every
\* subfragment before the fragment it is in.
RECURSIVE PostOrder(_, _)
RECURSIVE PostOrderOfSubs(_)
PostOrder(fragment, name) ==
    PostOrderOfSubs(fragment.subfragments) \o <<NameAsked(name)>>
PostOrderOfSubs(subs) ==
    IF subs = <<>> THEN <<>>
    ELSE PostOrder(Head(subs)[1], Head(subs)[2]) \o PostOrderOfSubs(Tail(subs))

\* The module of an activation has been closed.
Exited(f) == f.pc \in {"portmap", "return", "raise"}

\* The blocks of a text, buf, are in the order the claim states; ml is
\* ModuleLines(buf) and names the names in the module lines.
BlocksInOrder(buf, ml, names) ==
    /\ \A k, l \in DOMAIN ml : names[k] = names[l] => k = l
    /\ \A k \in DOMAIN ml :
        /\ Instantiated(buf, ml, k) \subseteq {names[l] : l \in 1..(k - 1)}
        /\ MarkedTop(buf, ml[k]) =>
              /\ k = Len(ml) /\ names[k] = "\\top"
              /\ stack = <<>> \/ (Len(stack) = 1 /\ Exited(stack[1]))
    /\ \A d \in DOMAIN stack :
        /\ Exited(stack[d]) <=> \E k \in DOMAIN ml : names[k] = stack[d].m.name
        /\ Exited(stack[d]) =>
              /\ d = Len(stack)
              /\ IsSuffix(stack[d].m.buf, buf)
              /\ names[Len(ml)] = stack[d].m.name
              /\ MarkedTop(buf, ml[Len(ml)]) <=> d = 1
        /\ \A r \in DOMAIN stack[d].rets :
              \E l \in DOMAIN ml :
                  /\ names[l] = stack[d].rets[r].name
                  /\ Exited(stack[d]) => l < Len(ml)
    /\ (result # <<>> /\ result[1].err = "") =>
        /\ Len(ml) = Len(PostOrder(top, "top"))
        /\ names[Len(ml)] = result[1].name
        /\ \A k \in DOMAIN ml :
            /\ \/ names[k] = PostOrder(top, "top")[k]
               \/ StartsWith(names[k], PostOrder(top, "top")[k] \o "$")
            /\ MarkedTop(buf, ml[k]) <=> k = Len(ml)
            /\ k < Len(ml) =>
                  Cardinality({l \in (k + 1)..Len(ml) :
                                  names[k] \in Instantiated(buf, ml, l)}) = 1

\* C12: the text of the builder is at all times a flat sequence of complete
\* module blocks with different names, none inside of or mixed with another.
\* The module of an activation is in it from the moment the module is closed,
\* as the last block and whole, behind the blocks of all the subfragments the
\* activation converted; every module a block instantiates in a cell is an
\* earlier block.  Only the block of the outermost activation is marked with
\* the top attribute, and it is the last block of the text.  When convert
\* returns, the blocks are those of the fragments of the hierarchy, every
\* subfragment's before its parent's, and every block but the last is
\* instantiated by exactly one later block.
C12_ChildrenFirst ==
    /\ FlatBlocks(builder.buf)
    /\ \E ml \in {ModuleLines(builder.buf)} :
          BlocksInOrder(builder.buf, ml, [k \in DOMAIN ml |-> builder.buf[ml[k]][3]])

\* convert returned the text of a hierarchy three fragments deep: four
\* blocks, the innermost fragment's before its parent's, the top's last.
C12_Witness ==
    /\ result # <<>> /\ result[1].err = ""
    /\ \E ml \in {ModuleLines(builder.buf)} :
        /\ Len(ml) = 4
        /\ builder.buf[ml[4]][3] = "\\top"
        /\ \E k \in 1..2 :
              /\ builder.buf[ml[k + 1]][3] = "\\mid"
              /\ Instantiated(builder.buf, ml, k + 1) = {builder.buf[ml[k]][3]}
              /\ "\\mid" \in Instantiated(builder.buf, ml, 4)

=============================================================================
